---- MODULE Spec2Model ----
(***************************************************************************)
(* Day 12 (christmas tree farm): the region-packing feasibility solver.    *)
(*                                                                         *)
(*   new_part_1.py   find_unique_orientations, solve_region, main          *)
(*   trace_solver.py solve_region_traced (the same search, with events)    *)
(*                                                                         *)
(* A cell is a pair <<r, c>>.  A shape is the set of its cells (parse_input *)
(* yields every cell once).  An orientation is the sorted list of its      *)
(* cells, as find_unique_orientations returns it.  A placement mask is a   *)
(* natural number, bit r*w+c standing for cell (r, c), as in the code.     *)
(***************************************************************************)
EXTENDS Integers, Sequences, FiniteSets, TLC

\* ------------------------------------------------------------------ bounds
\* Regions have sides of 0..MaxSide and at most MaxArea cells.
MaxSide == 4
MaxArea == 8
\* Every shape is required 0..MaxCount times.
MaxCount == 2
\* The regions of the long searches: sides of 2..DeepSide, at most DeepArea
\* cells, every shape required at least once.
DeepSide == 6
DeepArea == 12
\* Shapes given to find_unique_orientations on their own are the non-empty
\* subsets of a grid of ShapeRows x ShapeCols cells.
ShapeRows == 3
ShapeCols == 2
\* Sets of at most PermLimit orientations are listed in every order; larger
\* ones in the rotations of their sorted listing and of its reverse.
PermLimit == 2
\* The regions of the searches that come back to a position of a later
\* group: sides of 2..LongSide, at most LongArea cells, every shape required
\* 1..LongCount times.
LongSide == 5
LongArea == 10
LongCount == 3
\* Repeated calls of solve_region are made on regions with sides of
\* 2..RepeatSide and at most RepeatArea cells, every shape required
\* 0..RepeatCount times.
RepeatSide == 3
RepeatArea == 6
RepeatCount == 1
\* Shapes given to find_unique_orientations twice are the non-empty subsets
\* of a grid of TwiceRows x TwiceCols cells.
TwiceRows == 2
TwiceCols == 2
\* Calls repeated with reordered orientations are made on regions with
\* sides of 1..ReorderSide and at most ReorderArea cells, every shape
\* required 1..ReorderCount times.
ReorderSide == 4
ReorderArea == 8
ReorderCount == 2
\* Catalogs of one shape are solved on regions with sides of 0..SingleSide,
\* the shape required 0..SingleCount times.
SingleSide == 3
SingleCount == 5

\* ----------------------------------------------------------- generic helpers
MinOf(S) == CHOOSE x \in S : \A y \in S : x <= y

MaxOf(S) == CHOOSE x \in S : \A y \in S : x >= y

Range(f) == {f[k] : k \in DOMAIN f}

RECURSIVE Pow2(_)
Pow2(k) == IF k = 0 THEN 1 ELSE 2 * Pow2(k - 1)

\* Python's & and | on non-negative ints.
RECURSIVE BitAnd(_, _)
BitAnd(a, b) ==
    IF a = 0 \/ b = 0 THEN 0
    ELSE (IF a % 2 = 1 /\ b % 2 = 1 THEN 1 ELSE 0) + 2 * BitAnd(a \div 2, b \div 2)

RECURSIVE BitOr(_, _)
BitOr(a, b) ==
    IF a = 0 THEN b
    ELSE IF b = 0 THEN a
    ELSE (IF a % 2 = 1 \/ b % 2 = 1 THEN 1 ELSE 0) + 2 * BitOr(a \div 2, b \div 2)

\* Python's order on tuples (r, c).
CellLess(p, q) == p[1] < q[1] \/ (p[1] = q[1] /\ p[2] < q[2])

\* sorted(o) for a set of cells o.
RECURSIVE SortCells(_)
SortCells(S) ==
    IF S = {} THEN <<>>
    ELSE LET m == CHOOSE p \in S : \A q \in S \ {p} : CellLess(p, q)
         IN  <<m>> \o SortCells(S \ {m})

\* ------------------------------------------------------------ the catalogs
Mono == {<<0, 0>>}
Domino == {<<0, 0>>, <<0, 1>>}
Ell == {<<0, 0>>, <<1, 0>>, <<1, 1>>}
Tee == {<<0, 0>>, <<0, 1>>, <<0, 2>>, <<1, 1>>}
\* "#.#": parse_input takes every '#' of the pattern, joined or not.
Gap == {<<0, 0>>, <<0, 2>>}

\* The shape lists parse_input may hand to main.
Catalogs == {<<Domino, Ell>>, <<Tee, Domino>>}

\* Shape lists in which a shape with more placements comes before one with
\* fewer.
Unordered == {<<Domino, Tee>>, <<Domino, Tee, Mono>>}

\* A shape list on which a search fails after few steps.
Gapped == {<<Gap, Domino>>}

\* The shape lists of one shape.
Singles == {<<Mono>>, <<Domino>>, <<Ell>>}

\* ------------------------------------------------------------------- state
VARIABLES
    pc,                \* where main is: "fuo", "idle", "solve", "traced", "end"
    shapes,            \* main: shapes (list of cell sets)
    all_orientations,  \* main: all_orientations
    fuo,               \* frame of find_unique_orientations
    w, h, counts,      \* main: the region being solved
    sr,                \* frame of solve_region
    tr,                \* frame of solve_region_traced
    first,             \* what the first call of solve_region_traced returned
    memo               \* the first call of solve_region: arguments and result

vars == <<pc, shapes, all_orientations, fuo, w, h, counts, sr, tr, first, memo>>

\* ------------------------------------------------ find_unique_orientations
\* One quarter turn, applied rot times: rr, cc = cc, -rr.
RECURSIVE Rotate(_, _)
Rotate(cell, rot) ==
    IF rot = 0 THEN cell ELSE Rotate(<<cell[2], -cell[1]>>, rot - 1)

\* The cells list built for one (flip, rot).
TransformCells(shape, flip, rot) ==
    {Rotate(IF flip THEN <<p[1], -p[2]>> ELSE p, rot) : p \in shape}

NormalizeNoCol(cells) ==
    LET min_r == MinOf({p[1] : p \in cells})
    IN  {<<p[1] - min_r, p[2]>> : p \in cells}

\* normalized = frozenset((r - min_r, c - min_c) for r, c in cells)
Normalize(cells) ==
    LET min_r == MinOf({p[1] : p \in cells})
        min_c == MinOf({p[2] : p \in cells})
    IN  {<<p[1] - min_r, p[2] - min_c>> : p \in cells}

\* The orders in which a set of orientations may be iterated.
Perms(S) ==
    {f \in [1..Cardinality(S) -> S] : \A a, b \in DOMAIN f : a # b => f[a] # f[b]}

RECURSIVE SortSets(_)
SortSets(S) ==
    IF S = {} THEN <<>>
    ELSE LET RECURSIVE Before(_, _)
             Before(a, b) ==
                 IF a = <<>> THEN TRUE
                 ELSE IF b = <<>> THEN FALSE
                 ELSE IF a[1] = b[1] THEN Before(Tail(a), Tail(b))
                 ELSE CellLess(a[1], b[1])
             m == CHOOSE x \in S : \A y \in S : Before(SortCells(x), SortCells(y))
         IN  <<m>> \o SortSets(S \ {m})

IterOrders(S) ==
    IF Cardinality(S) <= PermLimit THEN Perms(S)
    ELSE LET n == Cardinality(S)
             base == SortSets(S)
         IN  {[k \in 1..n |-> base[((k - 1 + d) % n) + 1]] : d \in 0..(n - 1)}
             \cup {[k \in 1..n |-> base[((n - k + d) % n) + 1]] : d \in 0..(n - 1)}

FuoIdle == [s |-> 0, k |-> 0, orientations |-> {}]

\* One pass of "for flip ... for rot ..." (k = 4*flip + rot).
FuoStep ==
    /\ pc = "fuo"
    /\ fuo.k < 8
    /\ LET cells == TransformCells(shapes[fuo.s], fuo.k >= 4, fuo.k % 4)
       IN  fuo' = [fuo EXCEPT !.k = @ + 1,
                              !.orientations = @ \cup {Normalize(cells)}]
    /\ UNCHANGED <<pc, shapes, all_orientations, w, h, counts, sr, tr, first, memo>>

FuoReturnAnyOrder ==
    /\ pc = "fuo"
    /\ fuo.k = 8
    /\ \E order \in IterOrders(fuo.orientations) :
          all_orientations' =
              Append(all_orientations,
                     [j \in 1..Len(order) |-> SortCells(order[j])])
    /\ IF fuo.s < Len(shapes)
       THEN /\ fuo' = [FuoIdle EXCEPT !.s = fuo.s + 1]
            /\ pc' = pc
       ELSE /\ fuo' = FuoIdle
            /\ pc' = "idle"
    /\ UNCHANGED <<shapes, w, h, counts, sr, tr, first, memo>>

\* return [sorted(o) for o in orientations], and main's next shape.  The
\* set is iterated in an order the interpreter fixes: which one is open,
\* but a set built from the same images by the same sequence of add calls
\* (the same shape, wherever it lies) is iterated in the same order again.
FuoReturn ==
    /\ pc = "fuo"
    /\ fuo.k = 8
    /\ \E order \in IterOrders(fuo.orientations) :
          LET result == [j \in 1..Len(order) |-> SortCells(order[j])]
          IN  /\ \A s \in 1..Len(all_orientations) :
                     Normalize(shapes[s]) = Normalize(shapes[fuo.s])
                         => all_orientations[s] = result
              /\ all_orientations' = Append(all_orientations, result)
    /\ IF fuo.s < Len(shapes)
       THEN /\ fuo' = [FuoIdle EXCEPT !.s = fuo.s + 1]
            /\ pc' = pc
       ELSE /\ fuo' = FuoIdle
            /\ pc' = "idle"
    /\ UNCHANGED <<shapes, w, h, counts, sr, tr, first, memo>>

\* ------------------------------------------------------------ solve_region
\* active = [(s, counts[s]) ...]: the shapes (numbered from 1) with count > 0.
Active(cnts) ==
    SelectSeq([s \in 1..Len(cnts) |-> s], LAMBDA s : cnts[s] > 0)

RECURSIVE SumTo(_, _, _)
SumTo(cnts, shs, s) ==
    IF s = 0 THEN 0
    ELSE cnts[s] * Cardinality(shs[s]) + SumTo(cnts, shs, s - 1)

RECURSIVE SumSizes(_, _)
SumSizes(shs, s) == IF s = 0 THEN 0 ELSE Cardinality(shs[s]) + SumSizes(shs, s - 1)

TotalCellsOnce(cnts, shs) == SumSizes(shs, Len(shs))

\* total_cells = sum(counts[s] * len(shapes[s]) for s in range(len(shapes)))
TotalCells(cnts, shs) == SumTo(cnts, shs, Len(shs))

\* mask = 0; for r, c in orient: mask |= 1 << ((r + dr) * w + (c + dc))
RECURSIVE MaskOf(_, _, _, _, _)
MaskOf(orient, dr, dc, ww, k) ==
    IF k = 0 THEN 0
    ELSE BitOr(MaskOf(orient, dr, dc, ww, k - 1),
               Pow2((orient[k][1] + dr) * ww + (orient[k][2] + dc)))

MaxRow(orient) == MaxOf({orient[k][1] : k \in DOMAIN orient})

MaxCol(orient) == MaxOf({orient[k][2] : k \in DOMAIN orient})

RowOffsetsClosed(hh, max_r) == hh - max_r + 1

\* The number of values of "for dr in range(h - max_r)".
RowOffsets(hh, max_r) == hh - max_r

ColOffsetsClosed(ww, max_c) == ww - max_c + 1

\* The number of values of "for dc in range(w - max_c)".
ColOffsets(ww, max_c) == ww - max_c

\* The placements of orientation number j, in the order of the two loops;
\* each mask is kept with the orientation and offset it was built from.
OrientPlacements(orient, j, ww, hh) ==
    LET max_r == MaxRow(orient)
        max_c == MaxCol(orient)
        nr == RowOffsets(hh, max_r)
        nc == ColOffsets(ww, max_c)
    IN  IF max_r >= hh \/ max_c >= ww THEN <<>>
        ELSE [k \in 1..(nr * nc) |->
                 LET dr == (k - 1) \div nc
                     dc == (k - 1) % nc
                 IN  [mask |-> MaskOf(orient, dr, dc, ww, Len(orient)),
                      o |-> j, dr |-> dr, dc |-> dc]]

RECURSIVE PlacementsBreak(_, _, _, _)
PlacementsBreak(orients, j, ww, hh) ==
    IF j = 0 THEN <<>>
    ELSE PlacementsBreak(orients, j - 1, ww, hh)
         \o (IF \E i \in 1..j : MaxRow(orients[i]) >= hh \/ MaxCol(orients[i]) >= ww
             THEN <<>>
             ELSE OrientPlacements(orients[j], j, ww, hh))

\* for orient in all_orientations[s]: ... masks.append(mask)
RECURSIVE Placements(_, _, _, _)
Placements(orients, j, ww, hh) ==
    IF j = 0 THEN <<>>
    ELSE Placements(orients, j - 1, ww, hh) \o OrientPlacements(orients[j], j, ww, hh)

\* type_masks.sort(key=lambda x: len(x[2])): a stable sort.
RECURSIVE InsertByLen(_, _)
InsertByLen(sorted, e) ==
    IF sorted = <<>> THEN <<e>>
    ELSE IF Len(sorted[Len(sorted)].masks) <= Len(e.masks) THEN Append(sorted, e)
    ELSE Append(InsertByLen(SubSeq(sorted, 1, Len(sorted) - 1), e), sorted[Len(sorted)])

SortByLenNone(tm, k) == SubSeq(tm, 1, k)

RECURSIVE SortByLen(_, _)
SortByLen(tm, k) ==
    IF k = 0 THEN <<>> ELSE InsertByLen(SortByLen(tm, k - 1), tm[k])

RECURSIVE CountBefore(_, _)
CountBefore(tm, g) == IF g = 0 THEN 0 ELSE tm[g].cnt + CountBefore(tm, g - 1)

\* group_boundaries.append((idx, idx + cnt))
GroupBoundaries(tm) ==
    [g \in 1..Len(tm) |-> <<CountBefore(tm, g - 1), CountBefore(tm, g)>>]

\* inst_masks: position p holds a reference to the masks list of its group;
\* the reference is the group's number in the sorted type_masks.
InstMasks(tm) ==
    [p \in 0..(CountBefore(tm, Len(tm)) - 1) |->
        CHOOSE g \in 1..Len(tm) : CountBefore(tm, g - 1) <= p /\ p < CountBefore(tm, g)]

RECURSIVE CountFreeSkipFirst(_, _, _, _, _)
CountFreeSkipFirst(gmasks, new_grid, needed, k, count) ==
    IF k > Len(gmasks) THEN count
    ELSE IF k > 1 /\ BitAnd(new_grid, gmasks[k]) = 0
         THEN IF count + 1 >= needed THEN count + 1
              ELSE CountFreeSkipFirst(gmasks, new_grid, needed, k + 1, count + 1)
         ELSE CountFreeSkipFirst(gmasks, new_grid, needed, k + 1, count)

\* The inner "for gm in gmasks" of the forward check, with its early break.
RECURSIVE CountFree(_, _, _, _, _)
CountFree(gmasks, new_grid, needed, k, count) ==
    IF k > Len(gmasks) THEN count
    ELSE IF BitAnd(new_grid, gmasks[k]) = 0
         THEN IF count + 1 >= needed THEN count + 1
              ELSE CountFree(gmasks, new_grid, needed, k + 1, count + 1)
         ELSE CountFree(gmasks, new_grid, needed, k + 1, count)

PruneNever(f, new_grid) == FALSE

PruneWholeGroup(f, new_grid) ==
    \E g \in 1..Len(f.group_boundaries) :
        LET gs == f.group_boundaries[g][1]
            ge == f.group_boundaries[g][2]
            needed == ge - gs
            gmasks == f.type_masks[f.inst_masks[gs]].masks
        IN  /\ ~(ge <= f.pos + 1)
            /\ ~(needed <= 0)
            /\ CountFree(gmasks, new_grid, needed, 1, 0) < needed

\* The forward check of a candidate at position pos: prune.
Prune(f, new_grid) ==
    \E g \in 1..Len(f.group_boundaries) :
        LET gs == f.group_boundaries[g][1]
            ge == f.group_boundaries[g][2]
            needed == ge - (IF f.pos + 1 > gs THEN f.pos + 1 ELSE gs)
            gmasks == f.type_masks[f.inst_masks[gs]].masks
        IN  /\ ~(ge <= f.pos + 1)
            /\ ~(needed <= 0)
            /\ CountFree(gmasks, new_grid, needed, 1, 0) < needed

SrOff ==
    [pc |-> "off", a |-> 0, type_masks |-> <<>>, inst_masks |-> <<>>,
     group_boundaries |-> <<>>, n |-> 0, mi |-> <<>>, grids |-> <<>>,
     grid |-> 0, pos |-> 0, i |-> 0, ret |-> FALSE,
     sel |-> <<>>, trail |-> <<>>]

\* main: for w, h, counts in regions: solve_region(...)
NextRegion ==
    /\ pc = "idle"
    /\ \E ww \in 0..MaxSide, hh \in 0..MaxSide, cc \in [1..Len(shapes) -> 0..MaxCount] :
          /\ ww * hh <= MaxArea
          /\ w' = ww
          /\ h' = hh
          /\ counts' = cc
    /\ pc' = "solve"
    /\ sr' = [SrOff EXCEPT !.pc = "precheck"]
    /\ UNCHANGED <<shapes, all_orientations, fuo, tr, first, memo>>

\* main: a region large enough for the search to backtrack over several
\* positions.
NextRegionDeep ==
    /\ pc = "idle"
    /\ \E ww \in 2..DeepSide, hh \in 2..DeepSide, cc \in [1..Len(shapes) -> 1..MaxCount] :
          /\ ww * hh <= DeepArea
          /\ w' = ww
          /\ h' = hh
          /\ counts' = cc
    /\ pc' = "solve"
    /\ sr' = [SrOff EXCEPT !.pc = "precheck"]
    /\ UNCHANGED <<shapes, all_orientations, fuo, tr, first, memo>>

\* main: a region in which several instances of one shape follow another
\* shape.
NextRegionLong ==
    /\ pc = "idle"
    /\ \E ww \in 2..LongSide, hh \in 2..LongSide, cc \in [1..Len(shapes) -> 1..LongCount] :
          /\ ww * hh <= LongArea
          /\ w' = ww
          /\ h' = hh
          /\ counts' = cc
    /\ pc' = "solve"
    /\ sr' = [SrOff EXCEPT !.pc = "precheck"]
    /\ UNCHANGED <<shapes, all_orientations, fuo, tr, first, memo>>

\* main: a region for a catalog of one shape.
NextRegionSingle ==
    /\ pc = "idle"
    /\ \E ww \in 0..SingleSide, hh \in 0..SingleSide, k \in 0..SingleCount :
          /\ w' = ww
          /\ h' = hh
          /\ counts' = <<k>>
    /\ pc' = "solve"
    /\ sr' = [SrOff EXCEPT !.pc = "precheck"]
    /\ UNCHANGED <<shapes, all_orientations, fuo, tr, first, memo>>

SrPrecheckAtLeast ==
    /\ pc = "solve"
    /\ sr.pc = "precheck"
    /\ IF TotalCells(counts, shapes) >= w * h
       THEN sr' = [sr EXCEPT !.pc = "done", !.ret = FALSE]
       ELSE IF Active(counts) = <<>>
            THEN sr' = [sr EXCEPT !.pc = "done", !.ret = TRUE]
            ELSE sr' = [sr EXCEPT !.pc = "gen", !.a = 1]
    /\ UNCHANGED <<pc, shapes, all_orientations, fuo, w, h, counts, tr, first, memo>>

\* Lines 99-105: the area check and the empty-requirement case.
SrPrecheck ==
    /\ pc = "solve"
    /\ sr.pc = "precheck"
    /\ IF TotalCells(counts, shapes) > w * h
       THEN sr' = [sr EXCEPT !.pc = "done", !.ret = FALSE]
       ELSE IF Active(counts) = <<>>
            THEN sr' = [sr EXCEPT !.pc = "done", !.ret = TRUE]
            ELSE sr' = [sr EXCEPT !.pc = "gen", !.a = 1]
    /\ UNCHANGED <<pc, shapes, all_orientations, fuo, w, h, counts, tr, first, memo>>

SrGenNoFail ==
    /\ pc = "solve"
    /\ sr.pc = "gen"
    /\ LET s == Active(counts)[sr.a]
           pl == Placements(all_orientations[s], Len(all_orientations[s]), w, h)
       IN  sr' = [sr EXCEPT
                     !.type_masks = Append(@, [s |-> s, cnt |-> counts[s],
                                               masks |-> [k \in 1..Len(pl) |-> pl[k].mask],
                                               src |-> pl]),
                     !.a = @ + 1,
                     !.pc = IF sr.a = Len(Active(counts)) THEN "setup" ELSE "gen"]
    /\ UNCHANGED <<pc, shapes, all_orientations, fuo, w, h, counts, tr, first, memo>>

\* Lines 109-124: one pass of "for s, cnt in active".
SrGen ==
    /\ pc = "solve"
    /\ sr.pc = "gen"
    /\ sr' = LET s == Active(counts)[sr.a]
                 cnt == counts[s]
                 pl == Placements(all_orientations[s], Len(all_orientations[s]), w, h)
                 masks == [k \in 1..Len(pl) |-> pl[k].mask]
             IN  IF Len(masks) < cnt
                 THEN [sr EXCEPT !.pc = "done", !.ret = FALSE]
                 ELSE [sr EXCEPT
                          !.type_masks = Append(@, [s |-> s, cnt |-> cnt,
                                                    masks |-> masks, src |-> pl]),
                          !.a = @ + 1,
                          !.pc = IF sr.a = Len(Active(counts)) THEN "setup" ELSE "gen"]
    /\ UNCHANGED <<pc, shapes, all_orientations, fuo, w, h, counts, tr, first, memo>>

\* Lines 127-147: sort the groups, lay out the instances, start the search.
SrSetup ==
    /\ pc = "solve"
    /\ sr.pc = "setup"
    /\ LET tm == SortByLen(sr.type_masks, Len(sr.type_masks))
           n == CountBefore(tm, Len(tm))
       IN  sr' = [sr EXCEPT
                     !.type_masks = tm,
                     !.inst_masks = InstMasks(tm),
                     !.group_boundaries = GroupBoundaries(tm),
                     !.n = n,
                     !.mi = [p \in 0..n |-> 0],
                     !.grids = [p \in 0..(n - 1) |-> 0],
                     !.sel = [p \in 0..(n - 1) |-> -1],
                     !.grid = 0,
                     !.pos = 0,
                     !.pc = "loop"]
    /\ UNCHANGED <<pc, shapes, all_orientations, fuo, w, h, counts, tr, first, memo>>

\* Lines 149-154: the loop test and the start of a scan at pos.
SrLoopHead ==
    /\ pc = "solve"
    /\ sr.pc = "loop"
    /\ 0 <= sr.pos /\ sr.pos < sr.n
    /\ sr' = [sr EXCEPT !.i = sr.mi[sr.pos],
                        !.pc = "scan",
                        !.trail = Append(@, <<sr.pos, sr.grid, sr.mi[sr.pos]>>)]
    /\ UNCHANGED <<pc, shapes, all_orientations, fuo, w, h, counts, tr, first, memo>>

SrMasks == sr.type_masks[sr.inst_masks[sr.pos]].masks

\* Lines 157, 193: the candidate overlaps the grid.
SrOverlap ==
    /\ pc = "solve"
    /\ sr.pc = "scan"
    /\ sr.i < Len(SrMasks)
    /\ BitAnd(sr.grid, SrMasks[sr.i + 1]) # 0
    /\ sr' = [sr EXCEPT !.i = @ + 1]
    /\ UNCHANGED <<pc, shapes, all_orientations, fuo, w, h, counts, tr, first, memo>>

\* Lines 158-181: the candidate fits but the forward check prunes it.
SrPrune ==
    /\ pc = "solve"
    /\ sr.pc = "scan"
    /\ sr.i < Len(SrMasks)
    /\ BitAnd(sr.grid, SrMasks[sr.i + 1]) = 0
    /\ Prune(sr, BitOr(sr.grid, SrMasks[sr.i + 1]))
    /\ sr' = [sr EXCEPT !.i = @ + 1]
    /\ UNCHANGED <<pc, shapes, all_orientations, fuo, w, h, counts, tr, first, memo>>

ResumeSame(i) == i

\* mi[pos] = i + 1 on a commit.
ResumeAfter(i) == i + 1

NextStartAlways(f, i) == i + 1

NextStartZero(f, i) == 0

NextStartStale(f, i) ==
    IF f.pos + 1 < f.n /\ f.inst_masks[f.pos + 1] = f.inst_masks[f.pos]
    THEN i + 1 ELSE f.mi[f.pos + 1]

\* mi[pos + 1] = (i + 1) if same_next else 0
NextStart(f, i) ==
    IF f.pos + 1 < f.n /\ f.inst_masks[f.pos + 1] = f.inst_masks[f.pos]
    THEN i + 1 ELSE 0

SrCommitSavesNew ==
    /\ pc = "solve"
    /\ sr.pc = "scan"
    /\ sr.i < Len(SrMasks)
    /\ BitAnd(sr.grid, SrMasks[sr.i + 1]) = 0
    /\ ~Prune(sr, BitOr(sr.grid, SrMasks[sr.i + 1]))
    /\ sr' = [sr EXCEPT
                 !.grids[sr.pos] = BitOr(sr.grid, SrMasks[sr.i + 1]),
                 !.mi = [@ EXCEPT ![sr.pos] = ResumeAfter(sr.i),
                                  ![sr.pos + 1] = NextStart(sr, sr.i)],
                 !.grid = BitOr(sr.grid, SrMasks[sr.i + 1]),
                 !.sel[sr.pos] = sr.i,
                 !.pos = @ + 1,
                 !.pc = "loop"]
    /\ UNCHANGED <<pc, shapes, all_orientations, fuo, w, h, counts, tr, first, memo>>

SrCommitUntested ==
    /\ pc = "solve"
    /\ sr.pc = "scan"
    /\ sr.i < Len(SrMasks)
    /\ ~Prune(sr, BitOr(sr.grid, SrMasks[sr.i + 1]))
    /\ sr' = [sr EXCEPT
                 !.grids[sr.pos] = sr.grid,
                 !.mi = [@ EXCEPT ![sr.pos] = ResumeAfter(sr.i),
                                  ![sr.pos + 1] = NextStart(sr, sr.i)],
                 !.grid = BitOr(sr.grid, SrMasks[sr.i + 1]),
                 !.sel[sr.pos] = sr.i,
                 !.pos = @ + 1,
                 !.pc = "loop"]
    /\ UNCHANGED <<pc, shapes, all_orientations, fuo, w, h, counts, tr, first, memo>>

\* Lines 183-192: commit the candidate.
SrCommit ==
    /\ pc = "solve"
    /\ sr.pc = "scan"
    /\ sr.i < Len(SrMasks)
    /\ BitAnd(sr.grid, SrMasks[sr.i + 1]) = 0
    /\ ~Prune(sr, BitOr(sr.grid, SrMasks[sr.i + 1]))
    /\ sr' = [sr EXCEPT
                 !.grids[sr.pos] = sr.grid,
                 !.mi = [@ EXCEPT ![sr.pos] = ResumeAfter(sr.i),
                                  ![sr.pos + 1] = NextStart(sr, sr.i)],
                 !.grid = BitOr(sr.grid, SrMasks[sr.i + 1]),
                 !.sel[sr.pos] = sr.i,
                 !.pos = @ + 1,
                 !.pc = "loop"]
    /\ UNCHANGED <<pc, shapes, all_orientations, fuo, w, h, counts, tr, first, memo>>

SrNotFoundKeepsGrid ==
    /\ pc = "solve"
    /\ sr.pc = "scan"
    /\ ~(sr.i < Len(SrMasks))
    /\ sr' = [sr EXCEPT !.pos = @ - 1, !.pc = "loop"]
    /\ UNCHANGED <<pc, shapes, all_orientations, fuo, w, h, counts, tr, first, memo>>

\* Lines 195-198: the scan ran out of candidates.
SrNotFound ==
    /\ pc = "solve"
    /\ sr.pc = "scan"
    /\ ~(sr.i < Len(SrMasks))
    /\ sr' = [sr EXCEPT
                 !.pos = @ - 1,
                 !.grid = IF sr.pos - 1 >= 0 THEN sr.grids[sr.pos - 1] ELSE @,
                 !.pc = "loop"]
    /\ UNCHANGED <<pc, shapes, all_orientations, fuo, w, h, counts, tr, first, memo>>

SrReturnStrict ==
    /\ pc = "solve"
    /\ sr.pc = "loop"
    /\ ~(0 <= sr.pos /\ sr.pos < sr.n)
    /\ sr' = [sr EXCEPT !.pc = "done", !.ret = (sr.pos > sr.n)]
    /\ UNCHANGED <<pc, shapes, all_orientations, fuo, w, h, counts, tr, first, memo>>

\* Line 200: return pos >= n.
SrReturn ==
    /\ pc = "solve"
    /\ sr.pc = "loop"
    /\ ~(0 <= sr.pos /\ sr.pos < sr.n)
    /\ sr' = [sr EXCEPT !.pc = "done", !.ret = (sr.pos >= sr.n)]
    /\ UNCHANGED <<pc, shapes, all_orientations, fuo, w, h, counts, tr, first, memo>>

\* Lines 149-200: the search loop.
SearchLoop ==
    \/ SrLoopHead
    \/ SrOverlap
    \/ SrPrune
    \/ SrCommit
    \/ SrNotFound
    \/ SrReturn

SolveRegion ==
    \/ SrPrecheck
    \/ SrGen
    \/ SrSetup
    \/ SearchLoop

\* ----------------------------------------------------- solve_region_traced
\* MAX_EVENTS = 50_000 in trace_solver.py; scaled down here so that runs of
\* the bounded model reach the cap.
MAX_EVENTS == 6

\* Lines 27-40: the placements of orientation j, each with its cells list.
TOrientPlacements(orient, j, ww, hh) ==
    LET max_r == MaxRow(orient)
        max_c == MaxCol(orient)
        nr == hh - max_r
        nc == ww - max_c
    IN  IF max_r >= hh \/ max_c >= ww THEN <<>>
        ELSE [k \in 1..(nr * nc) |->
                 LET dr == (k - 1) \div nc
                     dc == (k - 1) % nc
                 IN  [mask |-> MaskOf(orient, dr, dc, ww, Len(orient)),
                      cells |-> [q \in 1..Len(orient) |->
                                    <<orient[q][1] + dr, orient[q][2] + dc>>],
                      o |-> j, dr |-> dr, dc |-> dc]]

RECURSIVE TPlacements(_, _, _, _)
TPlacements(orients, j, ww, hh) ==
    IF j = 0 THEN <<>>
    ELSE TPlacements(orients, j - 1, ww, hh) \o TOrientPlacements(orients[j], j, ww, hh)

\* Lines 86-91: the inner count of the forward check.
RECURSIVE TCountFree(_, _, _, _, _)
TCountFree(gmasks, new_grid, needed, k, count) ==
    IF k > Len(gmasks) THEN count
    ELSE IF BitAnd(new_grid, gmasks[k]) = 0
         THEN IF count + 1 >= needed THEN count + 1
              ELSE TCountFree(gmasks, new_grid, needed, k + 1, count + 1)
         ELSE TCountFree(gmasks, new_grid, needed, k + 1, count)

\* Lines 78-94: prune.
TPrune(f, new_grid) ==
    \E g \in 1..Len(f.group_boundaries) :
        LET gs == f.group_boundaries[g][1]
            ge == f.group_boundaries[g][2]
            needed == ge - (IF f.pos + 1 > gs THEN f.pos + 1 ELSE gs)
            gmasks == f.type_masks[f.inst_masks[gs]].masks
        IN  /\ ~(ge <= f.pos + 1)
            /\ ~(needed <= 0)
            /\ TCountFree(gmasks, new_grid, needed, 1, 0) < needed

\* The frame of solve_region_traced: type_masks stands for type_data,
\* whose entries carry cells_list as well.
TrOff ==
    [pc |-> "off", a |-> 0, type_masks |-> <<>>, inst_masks |-> <<>>,
     group_boundaries |-> <<>>, n |-> 0, mi |-> <<>>, grids |-> <<>>,
     grid |-> 0, pos |-> 0, i |-> 0, ret |-> FALSE,
     sel |-> <<>>, trail |-> <<>>, events |-> <<>>, capped |-> FALSE]

TrEntryKeeps(prev) == [TrOff EXCEPT !.pc = "precheck", !.events = prev.events]

\* What a call starts from: events = [].
TrEntry(prev) == [TrOff EXCEPT !.pc = "precheck"]

TrPrecheckAtLeast ==
    /\ pc = "traced"
    /\ tr.pc = "precheck"
    /\ IF TotalCells(counts, shapes) >= w * h
       THEN tr' = [tr EXCEPT !.pc = "done", !.ret = FALSE]
       ELSE IF Active(counts) = <<>>
            THEN tr' = [tr EXCEPT !.pc = "done", !.ret = TRUE]
            ELSE tr' = [tr EXCEPT !.pc = "gen", !.a = 1]
    /\ UNCHANGED <<pc, shapes, all_orientations, fuo, w, h, counts, sr, first, memo>>

\* Lines 15-22.
TrPrecheck ==
    /\ pc = "traced"
    /\ tr.pc = "precheck"
    /\ IF TotalCells(counts, shapes) > w * h
       THEN tr' = [tr EXCEPT !.pc = "done", !.ret = FALSE]
       ELSE IF Active(counts) = <<>>
            THEN tr' = [tr EXCEPT !.pc = "done", !.ret = TRUE]
            ELSE tr' = [tr EXCEPT !.pc = "gen", !.a = 1]
    /\ UNCHANGED <<pc, shapes, all_orientations, fuo, w, h, counts, sr, first, memo>>

\* Lines 25-43: one pass of "for s, cnt in active".
TrGen ==
    /\ pc = "traced"
    /\ tr.pc = "gen"
    /\ LET s == Active(counts)[tr.a]
           cnt == counts[s]
           pl == TPlacements(all_orientations[s], Len(all_orientations[s]), w, h)
           masks == [k \in 1..Len(pl) |-> pl[k].mask]
           cells_list == [k \in 1..Len(pl) |-> pl[k].cells]
       IN  IF Len(masks) < cnt
           THEN tr' = [tr EXCEPT !.pc = "done", !.ret = FALSE]
           ELSE tr' = [tr EXCEPT
                          !.type_masks = Append(@, [s |-> s, cnt |-> cnt,
                                                    masks |-> masks,
                                                    cells_list |-> cells_list]),
                          !.a = @ + 1,
                          !.pc = IF tr.a = Len(Active(counts)) THEN "setup" ELSE "gen"]
    /\ UNCHANGED <<pc, shapes, all_orientations, fuo, w, h, counts, sr, first, memo>>

\* Lines 45-65.
TrSetup ==
    /\ pc = "traced"
    /\ tr.pc = "setup"
    /\ LET tm == SortByLen(tr.type_masks, Len(tr.type_masks))
           n == CountBefore(tm, Len(tm))
       IN  tr' = [tr EXCEPT
                     !.type_masks = tm,
                     !.inst_masks = InstMasks(tm),
                     !.group_boundaries = GroupBoundaries(tm),
                     !.n = n,
                     !.mi = [p \in 0..n |-> 0],
                     !.grids = [p \in 0..(n - 1) |-> 0],
                     !.sel = [p \in 0..(n - 1) |-> -1],
                     !.grid = 0,
                     !.pos = 0,
                     !.capped = FALSE,
                     !.pc = "loop"]
    /\ UNCHANGED <<pc, shapes, all_orientations, fuo, w, h, counts, sr, first, memo>>

\* Lines 67-71.
TrLoopHead ==
    /\ pc = "traced"
    /\ tr.pc = "loop"
    /\ 0 <= tr.pos /\ tr.pos < tr.n
    /\ tr' = [tr EXCEPT !.i = tr.mi[tr.pos],
                        !.pc = "scan",
                        !.trail = Append(@, <<tr.pos, tr.grid, tr.mi[tr.pos]>>)]
    /\ UNCHANGED <<pc, shapes, all_orientations, fuo, w, h, counts, sr, first, memo>>

TrGroup == tr.type_masks[tr.inst_masks[tr.pos]]

TrMasks == TrGroup.masks

\* Lines 75, 118.
TrOverlap ==
    /\ pc = "traced"
    /\ tr.pc = "scan"
    /\ tr.i < Len(TrMasks)
    /\ BitAnd(tr.grid, TrMasks[tr.i + 1]) # 0
    /\ tr' = [tr EXCEPT !.i = @ + 1]
    /\ UNCHANGED <<pc, shapes, all_orientations, fuo, w, h, counts, sr, first, memo>>

\* Lines 76-97.
TrPrune ==
    /\ pc = "traced"
    /\ tr.pc = "scan"
    /\ tr.i < Len(TrMasks)
    /\ BitAnd(tr.grid, TrMasks[tr.i + 1]) = 0
    /\ TPrune(tr, BitOr(tr.grid, TrMasks[tr.i + 1]))
    /\ tr' = [tr EXCEPT !.i = @ + 1]
    /\ UNCHANGED <<pc, shapes, all_orientations, fuo, w, h, counts, sr, first, memo>>

RecordLate(f, e) ==
    IF ~f.capped
    THEN [events |-> Append(f.events, e),
          capped |-> (Len(f.events) + 1 > MAX_EVENTS)]
    ELSE [events |-> f.events, capped |-> f.capped]

\* Lines 105-113 and 121-124: "if not capped: events.append(e); if
\* len(events) >= MAX_EVENTS: capped = True".
Record(f, e) ==
    IF ~f.capped
    THEN [events |-> Append(f.events, e),
          capped |-> (Len(f.events) + 1 >= MAX_EVENTS)]
    ELSE [events |-> f.events, capped |-> f.capped]

TrCommitGroupIndex ==
    /\ pc = "traced"
    /\ tr.pc = "scan"
    /\ tr.i < Len(TrMasks)
    /\ BitAnd(tr.grid, TrMasks[tr.i + 1]) = 0
    /\ ~TPrune(tr, BitOr(tr.grid, TrMasks[tr.i + 1]))
    /\ LET rec == Record(tr, [t |-> "c", p |-> tr.pos, s |-> tr.inst_masks[tr.pos],
                              cells |-> TrGroup.cells_list[tr.i + 1]])
       IN  tr' = [tr EXCEPT
                     !.grids[tr.pos] = tr.grid,
                     !.mi = [@ EXCEPT ![tr.pos] = tr.i + 1,
                                      ![tr.pos + 1] =
                                          IF tr.pos + 1 < tr.n
                                             /\ tr.inst_masks[tr.pos + 1] = tr.inst_masks[tr.pos]
                                          THEN tr.i + 1 ELSE 0],
                     !.grid = BitOr(tr.grid, TrMasks[tr.i + 1]),
                     !.sel[tr.pos] = tr.i,
                     !.events = rec.events,
                     !.capped = rec.capped,
                     !.pos = @ + 1,
                     !.pc = "loop"]
    /\ UNCHANGED <<pc, shapes, all_orientations, fuo, w, h, counts, sr, first, memo>>

\* Lines 99-117.
TrCommit ==
    /\ pc = "traced"
    /\ tr.pc = "scan"
    /\ tr.i < Len(TrMasks)
    /\ BitAnd(tr.grid, TrMasks[tr.i + 1]) = 0
    /\ ~TPrune(tr, BitOr(tr.grid, TrMasks[tr.i + 1]))
    /\ LET rec == Record(tr, [t |-> "c", p |-> tr.pos, s |-> TrGroup.s,
                              cells |-> TrGroup.cells_list[tr.i + 1]])
       IN  tr' = [tr EXCEPT
                     !.grids[tr.pos] = tr.grid,
                     !.mi = [@ EXCEPT ![tr.pos] = tr.i + 1,
                                      ![tr.pos + 1] =
                                          IF tr.pos + 1 < tr.n
                                             /\ tr.inst_masks[tr.pos + 1] = tr.inst_masks[tr.pos]
                                          THEN tr.i + 1 ELSE 0],
                     !.grid = BitOr(tr.grid, TrMasks[tr.i + 1]),
                     !.sel[tr.pos] = tr.i,
                     !.events = rec.events,
                     !.capped = rec.capped,
                     !.pos = @ + 1,
                     !.pc = "loop"]
    /\ UNCHANGED <<pc, shapes, all_orientations, fuo, w, h, counts, sr, first, memo>>

TrNotFoundSilent ==
    /\ pc = "traced"
    /\ tr.pc = "scan"
    /\ ~(tr.i < Len(TrMasks))
    /\ tr' = [tr EXCEPT
                 !.pos = @ - 1,
                 !.grid = IF tr.pos - 1 >= 0 THEN tr.grids[tr.pos - 1] ELSE @,
                 !.pc = "loop"]
    /\ UNCHANGED <<pc, shapes, all_orientations, fuo, w, h, counts, sr, first, memo>>

TrNotFoundGivesUp ==
    /\ pc = "traced"
    /\ tr.pc = "scan"
    /\ ~(tr.i < Len(TrMasks))
    /\ LET rec == Record(tr, [t |-> "b", p |-> tr.pos])
       IN  tr' = [tr EXCEPT
                     !.events = rec.events,
                     !.capped = rec.capped,
                     !.pos = IF tr.capped THEN -1 ELSE @ - 1,
                     !.grid = IF tr.pos - 1 >= 0 THEN tr.grids[tr.pos - 1] ELSE @,
                     !.pc = "loop"]
    /\ UNCHANGED <<pc, shapes, all_orientations, fuo, w, h, counts, sr, first, memo>>

\* Lines 120-127.
TrNotFound ==
    /\ pc = "traced"
    /\ tr.pc = "scan"
    /\ ~(tr.i < Len(TrMasks))
    /\ LET rec == Record(tr, [t |-> "b", p |-> tr.pos])
       IN  tr' = [tr EXCEPT
                     !.events = rec.events,
                     !.capped = rec.capped,
                     !.pos = @ - 1,
                     !.grid = IF tr.pos - 1 >= 0 THEN tr.grids[tr.pos - 1] ELSE @,
                     !.pc = "loop"]
    /\ UNCHANGED <<pc, shapes, all_orientations, fuo, w, h, counts, sr, first, memo>>

\* Line 129: return pos >= n, events.
TrReturn ==
    /\ pc = "traced"
    /\ tr.pc = "loop"
    /\ ~(0 <= tr.pos /\ tr.pos < tr.n)
    /\ tr' = [tr EXCEPT !.pc = "done", !.ret = (tr.pos >= tr.n)]
    /\ UNCHANGED <<pc, shapes, all_orientations, fuo, w, h, counts, sr, first, memo>>

SolveRegionTraced ==
    \/ TrPrecheck
    \/ TrGen
    \/ TrSetup
    \/ TrLoopHead
    \/ TrOverlap
    \/ TrPrune
    \/ TrCommit
    \/ TrNotFound
    \/ TrReturn

\* ------------------------------------------------------------------- main
MemoNone ==
    [done |-> FALSE, w |-> 0, h |-> 0, counts |-> <<>>, shapes |-> <<>>,
     all_orientations |-> <<>>, ret |-> FALSE, trail |-> <<>>, other |-> FALSE]

FirstNone == [done |-> FALSE, ret |-> FALSE, events |-> <<>>, trail |-> <<>>]

\* The region just solved is given to solve_region_traced.
CallTraced ==
    /\ pc = "solve"
    /\ sr.pc = "done"
    /\ pc' = "traced"
    /\ tr' = TrEntry(tr)
    /\ UNCHANGED <<shapes, all_orientations, fuo, w, h, counts, sr, first, memo>>

\* solve_region_traced is called a second time with the same arguments.
CallTracedAgain ==
    /\ pc = "traced"
    /\ tr.pc = "done"
    /\ ~first.done
    /\ first' = [done |-> TRUE, ret |-> tr.ret, events |-> tr.events,
                 trail |-> tr.trail]
    /\ tr' = TrEntry(tr)
    /\ UNCHANGED <<pc, shapes, all_orientations, fuo, w, h, counts, sr, memo>>

\* main moves on to the next region; the frames of the calls are gone.
Resume ==
    /\ pc = "traced"
    /\ tr.pc = "done"
    /\ first.done
    /\ pc' = "idle"
    /\ sr' = SrOff
    /\ tr' = TrOff
    /\ first' = FirstNone
    /\ w' = 0
    /\ h' = 0
    /\ counts' = <<>>
    /\ UNCHANGED <<shapes, all_orientations, fuo, memo>>

Init ==
    /\ pc = "fuo"
    /\ shapes \in Catalogs
    /\ all_orientations = <<>>
    /\ fuo = [FuoIdle EXCEPT !.s = 1]
    /\ w = 0
    /\ h = 0
    /\ counts = <<>>
    /\ sr = SrOff
    /\ tr = TrOff
    /\ first = FirstNone
    /\ memo = MemoNone

Next ==
    \/ FuoStep
    \/ FuoReturn
    \/ NextRegion
    \/ SolveRegion
    \/ CallTraced
    \/ SolveRegionTraced
    \/ CallTracedAgain
    \/ Resume

Spec == Init /\ [][Next]_vars

\* main solving one large region with solve_region.
InitDeep ==
    /\ pc = "fuo"
    /\ shapes = <<Tee, Domino>>
    /\ all_orientations = <<>>
    /\ fuo = [FuoIdle EXCEPT !.s = 1]
    /\ w = 0
    /\ h = 0
    /\ counts = <<>>
    /\ sr = SrOff
    /\ tr = TrOff
    /\ first = FirstNone
    /\ memo = MemoNone

NextDeep == FuoStep \/ FuoReturn \/ NextRegionDeep \/ SolveRegion

SpecDeep == InitDeep /\ [][NextDeep]_vars

\* find_unique_orientations on a single arbitrary shape.
ShapeGrid == (0..(ShapeRows - 1)) \X (0..(ShapeCols - 1))

InitOrient ==
    /\ pc = "fuo"
    /\ shapes \in {<<S>> : S \in (SUBSET ShapeGrid) \ {{}}}
    /\ all_orientations = <<>>
    /\ fuo = [FuoIdle EXCEPT !.s = 1]
    /\ w = 0
    /\ h = 0
    /\ counts = <<>>
    /\ sr = SrOff
    /\ tr = TrOff
    /\ first = FirstNone
    /\ memo = MemoNone

NextOrient == FuoStep \/ FuoReturn

SpecOrient == InitOrient /\ [][NextOrient]_vars

\* main: the next region of the loop, one call of solve_region after another.
NextRegionRepeat ==
    /\ pc = "idle"
    /\ \E ww \in 2..RepeatSide, hh \in 2..RepeatSide,
          cc \in [1..Len(shapes) -> 0..RepeatCount] :
          /\ ww * hh <= RepeatArea
          /\ w' = ww
          /\ h' = hh
          /\ counts' = cc
    /\ pc' = "solve"
    /\ sr' = [sr EXCEPT !.pc = "precheck"]
    /\ UNCHANGED <<shapes, all_orientations, fuo, tr, first, memo>>

SrExitKeeps(f) == [SrOff EXCEPT !.type_masks = f.type_masks]

\* What is left of the frame of solve_region once it has returned.
SrExit(f) == SrOff

\* main, lines 211-213: solve_region has returned; on to the next region.
SolveReturn ==
    /\ pc = "solve"
    /\ sr.pc = "done"
    /\ pc' = "idle"
    /\ sr' = SrExit(sr)
    /\ memo' = IF ~memo.done
               THEN [done |-> TRUE, w |-> w, h |-> h, counts |-> counts,
                     shapes |-> shapes, all_orientations |-> all_orientations,
                     ret |-> sr.ret, trail |-> sr.trail, other |-> FALSE]
               ELSE [memo EXCEPT !.other = @ \/ <<w, h, counts>> # <<memo.w, memo.h, memo.counts>>]
    /\ w' = 0
    /\ h' = 0
    /\ counts' = <<>>
    /\ UNCHANGED <<shapes, all_orientations, fuo, tr, first>>

InitRepeat ==
    /\ pc = "fuo"
    /\ shapes \in Catalogs
    /\ all_orientations = <<>>
    /\ fuo = [FuoIdle EXCEPT !.s = 1]
    /\ w = 0
    /\ h = 0
    /\ counts = <<>>
    /\ sr = SrOff
    /\ tr = TrOff
    /\ first = FirstNone
    /\ memo = MemoNone

NextRepeat == FuoStep \/ FuoReturn \/ NextRegionRepeat \/ SolveRegion \/ SolveReturn

SpecRepeat == InitRepeat /\ [][NextRepeat]_vars

\* find_unique_orientations on two shapes: an arbitrary one, then the same
\* shape lying elsewhere.
TwiceGrid == (0..(TwiceRows - 1)) \X (0..(TwiceCols - 1))

InitTwice ==
    /\ pc = "fuo"
    /\ shapes \in {<<A, {<<p[1] + 1, p[2] + 2>> : p \in A}>> :
                      A \in (SUBSET TwiceGrid) \ {{}}}
    /\ all_orientations = <<>>
    /\ fuo = [FuoIdle EXCEPT !.s = 1]
    /\ w = 0
    /\ h = 0
    /\ counts = <<>>
    /\ sr = SrOff
    /\ tr = TrOff
    /\ first = FirstNone
    /\ memo = MemoNone

NextTwice == FuoStep \/ FuoReturn

SpecTwice == InitTwice /\ [][NextTwice]_vars

\* main solving one region with up to LongCount instances of a shape.
NextLong == FuoStep \/ FuoReturn \/ NextRegionLong \/ SolveRegion

SpecLong == InitDeep /\ [][NextLong]_vars

\* main solving one region for a catalog that the sort has to reorder.
InitOrder ==
    /\ pc = "fuo"
    /\ shapes \in Unordered
    /\ all_orientations = <<>>
    /\ fuo = [FuoIdle EXCEPT !.s = 1]
    /\ w = 0
    /\ h = 0
    /\ counts = <<>>
    /\ sr = SrOff
    /\ tr = TrOff
    /\ first = FirstNone
    /\ memo = MemoNone

NextOrder == FuoStep \/ FuoReturn \/ NextRegion \/ SolveRegion

SpecOrder == InitOrder /\ [][NextOrder]_vars

\* The visualizer's runs on catalogs whose groups the solver reorders.
SpecTracedOrder == InitOrder /\ [][Next]_vars

\* The visualizer's runs on a catalog with a shape of two parts.
InitGapped ==
    /\ pc = "fuo"
    /\ shapes \in Gapped
    /\ all_orientations = <<>>
    /\ fuo = [FuoIdle EXCEPT !.s = 1]
    /\ w = 0
    /\ h = 0
    /\ counts = <<>>
    /\ sr = SrOff
    /\ tr = TrOff
    /\ first = FirstNone
    /\ memo = MemoNone

SpecTracedGapped == InitGapped /\ [][Next]_vars

\* main: the one region of a run that is solved over again.
NextRegionOnce ==
    /\ pc = "idle"
    /\ ~memo.done
    /\ \E ww \in 1..ReorderSide, hh \in 1..ReorderSide,
          cc \in [1..Len(shapes) -> 1..ReorderCount] :
          /\ ww * hh <= ReorderArea
          /\ w' = ww
          /\ h' = hh
          /\ counts' = cc
    /\ pc' = "solve"
    /\ sr' = [SrOff EXCEPT !.pc = "precheck"]
    /\ UNCHANGED <<shapes, all_orientations, fuo, tr, first, memo>>

\* The lists that hold the entries of list a in another order.
Reordered(a) ==
    {[k \in 1..Len(a) |-> a[f[k]]] : f \in Perms(1..Len(a))}

RECURSIVE AllReordered(_, _)
\* The lists whose first k entries are the first k lists of ao, each in
\* some order.
AllReordered(ao, k) ==
    IF k = 0 THEN {<<>>}
    ELSE {Append(x, y) : x \in AllReordered(ao, k - 1), y \in Reordered(ao[k])}

\* solve_region(w, h, counts, all_orientations, shapes) called on the region
\* solved before, each all_orientations[s] holding the same orientations
\* in some order.
CallReordered ==
    /\ pc = "idle"
    /\ memo.done
    /\ all_orientations' \in AllReordered(all_orientations, Len(all_orientations))
    /\ w' = memo.w
    /\ h' = memo.h
    /\ counts' = memo.counts
    /\ pc' = "solve"
    /\ sr' = [SrOff EXCEPT !.pc = "precheck"]
    /\ UNCHANGED <<shapes, fuo, tr, first, memo>>

NextReordered ==
    \/ FuoStep
    \/ FuoReturn
    \/ NextRegionOnce
    \/ SolveRegion
    \/ SolveReturn
    \/ CallReordered

SpecReordered == InitDeep /\ [][NextReordered]_vars

\* main solving one region for a catalog of one shape.
InitSingle ==
    /\ pc = "fuo"
    /\ shapes \in Singles
    /\ all_orientations = <<>>
    /\ fuo = [FuoIdle EXCEPT !.s = 1]
    /\ w = 0
    /\ h = 0
    /\ counts = <<>>
    /\ sr = SrOff
    /\ tr = TrOff
    /\ first = FirstNone
    /\ memo = MemoNone

NextSingle == FuoStep \/ FuoReturn \/ NextRegionSingle \/ SolveRegion

SpecSingle == InitSingle /\ [][NextSingle]_vars

\* ------------------------------------------------------- what is required
\* The cells of mask m: the positions of its 1 bits.
RECURSIVE BitsOf(_, _)
BitsOf(m, k) ==
    IF m = 0 THEN {}
    ELSE (IF m % 2 = 1 THEN {k} ELSE {}) \cup BitsOf(m \div 2, k + 1)

\* The cells demanded by the region: count[s] copies of every shape.
Demand == LET D[s \in 0..Len(shapes)] ==
                  IF s = 0 THEN 0 ELSE D[s - 1] + counts[s] * Cardinality(shapes[s])
          IN  D[Len(shapes)]

\* Every in-bounds translate of every orientation of shape s, as a cell set.
Translates(s) ==
    {P \in {{<<c[1] + dr, c[2] + dc>> : c \in Range(o)} :
              o \in Range(all_orientations[s]), dr \in 0..h, dc \in 0..w} :
        \A c \in P : c[1] < h /\ c[2] < w}

\* The required instances, one shape number per instance.
RECURSIVE Copies(_, _)
Copies(s, k) == IF k = 0 THEN <<>> ELSE <<s>> \o Copies(s, k - 1)

RECURSIVE Required(_)
Required(s) == IF s = 0 THEN <<>> ELSE Required(s - 1) \o Copies(s, counts[s])

\* Naive search: place the instances one after the other, any placement
\* that does not overlap the cells taken so far.
RECURSIVE Fits(_, _, _)
Fits(insts, k, taken) ==
    IF k > Len(insts) THEN TRUE
    ELSE \E P \in Translates(insts[k]) :
            /\ P \cap taken = {}
            /\ Fits(insts, k + 1, taken \cup P)

Feasible == Fits(Required(Len(shapes)), 1, {})

SolveDone == pc = "solve" /\ sr.pc = "done"

\* C1: solve_region returns true exactly when the required instances can be
\* given pairwise disjoint in-bounds placements, as a naive search decides.
C1_MatchesBruteForce == SolveDone => (sr.ret = Feasible)

\* A solution found after the search had to backtrack.
C1_Witness == SolveDone /\ sr.ret /\ Len(sr.trail) > sr.n

\* C2: when the demanded cells exceed w*h, both solvers return false with
\* no placement list generated and the search loop never entered.
C2_AreaPrecheck ==
    (pc \in {"solve", "traced"} /\ Demand > w * h) =>
        /\ (pc = "solve" /\ sr.pc # "precheck") =>
               (sr.pc = "done" /\ ~sr.ret /\ sr.type_masks = <<>> /\ sr.trail = <<>>)
        /\ (pc = "traced" /\ tr.pc # "precheck") =>
               (tr.pc = "done" /\ ~tr.ret /\ tr.type_masks = <<>> /\ tr.trail = <<>>
                /\ tr.events = <<>>)

C2_Witness ==
    /\ pc = "traced" /\ tr.pc = "done"
    /\ Demand > w * h
    /\ \E s \in 1..Len(shapes) : counts[s] > 0 /\ Cardinality(shapes[s]) <= w * h

\* The offsets at which orientation o lies inside the region.
Offsets(o) ==
    {d \in (0..h) \X (0..w) :
        \A c \in Range(o) : c[1] + d[1] < h /\ c[2] + d[2] < w}

RECURSIVE NumPlacementsTo(_, _)
NumPlacementsTo(s, j) ==
    IF j = 0 THEN 0
    ELSE NumPlacementsTo(s, j - 1) + Cardinality(Offsets(all_orientations[s][j]))

NumPlacements(s) == NumPlacementsTo(s, Len(all_orientations[s]))

Starved == \E s \in 1..Len(shapes) : counts[s] > 0 /\ NumPlacements(s) < counts[s]

\* C3: when a required shape has fewer placements in the region than
\* required copies, solve_region returns false without entering the search.
C3_FailFast ==
    (SolveDone /\ Starved) => (~sr.ret /\ sr.trail = <<>>)

\* The area check passes and a required shape lacks placements.
C3_Witness == SolveDone /\ Starved /\ Demand <= w * h

IsPrefix(a, b) == Len(a) <= Len(b) /\ \A k \in 1..Len(a) : a[k] = b[k]

TracedDone == pc = "traced" /\ tr.pc = "done"

\* C4: solve_region_traced visits the same (position, occupancy, resume
\* index) states as solve_region, in the same order, and returns the same
\* boolean, whether or not the event cap was reached.
C4_TracedFollowsPlain ==
    (pc = "traced") =>
        /\ IsPrefix(tr.trail, sr.trail)
        /\ tr.pc = "done" => (tr.trail = sr.trail /\ tr.ret = sr.ret)

\* A traced run that went on searching, and backtracked, after the cap.
C4_Witness ==
    /\ TracedDone /\ tr.capped
    /\ Len(tr.trail) > MAX_EVENTS + 2
    /\ \E k \in (MAX_EVENTS + 1)..(Len(tr.trail) - 1) : tr.trail[k + 1][1] < tr.trail[k][1]

C6_EventCap ==
    /\ [](Len(tr.events) <= MAX_EVENTS)
    /\ [][(Len(tr.events) >= MAX_EVENTS /\ tr.pc # "done") => (tr'.events = tr.events)]_vars

\* The search went on past the cap: more scans than recorded events.
C6_Witness ==
    /\ TracedDone
    /\ Len(tr.events) = MAX_EVENTS
    /\ Len(tr.trail) > MAX_EVENTS

\* The placement records of solve_region, with their shape.
SrPlaced ==
    UNION {{[s |-> sr.type_masks[g].s, pl |-> sr.type_masks[g].src[k]] :
               k \in 1..Len(sr.type_masks[g].src)} : g \in 1..Len(sr.type_masks)}
\* C7: every placement mask of solve_region has exactly the bits
\* (r+dr)*w + (c+dc) of the cells of its orientation moved by its offset,
\* every moved cell lies inside the region (no wrap into the next row), no
\* bit is >= w*h, and the mask has as many bits as the orientation has cells.
C7_MaskIsTranslate ==
    (pc = "solve") =>
        \A e \in SrPlaced :
            LET o == all_orientations[e.s][e.pl.o]
                moved == {<<c[1] + e.pl.dr, c[2] + e.pl.dc>> : c \in Range(o)}
                bits == BitsOf(e.pl.mask, 0)
            IN  /\ \A c \in moved : 0 <= c[1] /\ c[1] < h /\ 0 <= c[2] /\ c[2] < w
                /\ bits = {c[1] * w + c[2] : c \in moved}
                /\ \A b \in bits : b < w * h
                /\ Cardinality(bits) = Len(o)

\* A placement moved down and right in a region that is not square.
C7_Witness ==
    /\ pc = "solve"
    /\ w # h
    /\ \E e \in SrPlaced :
          e.pl.dr > 0 /\ e.pl.dc > 0 /\ Len(all_orientations[e.s][e.pl.o]) >= 2

\* The 8 rotations and reflections of the plane, as matrices <<a, b, c, d>>.
D4 ==
    {m \in {-1, 0, 1} \X {-1, 0, 1} \X {-1, 0, 1} \X {-1, 0, 1} :
        /\ m[1] * m[1] + m[2] * m[2] = 1
        /\ m[3] * m[3] + m[4] * m[4] = 1
        /\ m[1] * m[1] + m[3] * m[3] = 1}

\* X is shape S turned by m and moved.
IsImage(X, S, m) ==
    LET Y == {<<m[1] * p[1] + m[2] * p[2], m[3] * p[1] + m[4] * p[2]>> : p \in S}
        mr == MinOf({p[1] : p \in X}) - MinOf({p[1] : p \in Y})
        mc == MinOf({p[2] : p \in X}) - MinOf({p[2] : p \in Y})
    IN  X = {<<p[1] + mr, p[2] + mc>> : p \in Y}

IsNormalized(X) ==
    /\ \A p \in X : p[1] >= 0 /\ p[2] >= 0
    /\ \E p \in X : p[1] = 0
    /\ \E p \in X : p[2] = 0

\* C8: find_unique_orientations returns 1 to 8 pairwise distinct cell sets,
\* each normalized, each a rotation or reflection image of the shape, and
\* the normalized shape itself is among them.
C8_Orientations ==
    \A s \in 1..Len(all_orientations) :
        LET L == all_orientations[s]
        IN  /\ 1 <= Len(L) /\ Len(L) <= 8
            /\ \A a, b \in 1..Len(L) : a # b => Range(L[a]) # Range(L[b])
            /\ \A a \in 1..Len(L) :
                  /\ Cardinality(Range(L[a])) = Len(L[a])
                  /\ IsNormalized(Range(L[a]))
                  /\ \E m \in D4 : IsImage(Range(L[a]), shapes[s], m)
            /\ \E a \in 1..Len(L) : IsImage(Range(L[a]), shapes[s], <<1, 0, 0, 1>>)

\* A shape away from the origin whose 8 images are 4 different orientations.
C8_Witness ==
    /\ Len(all_orientations) = 1
    /\ Len(all_orientations[1]) = 4
    /\ \A p \in shapes[1] : p[1] > 0

\* Once entered, the search loop keeps running until it returns.
FairSpec == SpecDeep /\ WF_vars(SearchLoop)

\* C9: the search loop terminates with pos = n or pos = -1, and a position
\* reached again by backtracking resumes after the index it last committed.
C9_Terminates ==
    /\ (pc = "solve" /\ sr.pc = "loop")
           ~> (sr.pc = "done" /\ (sr.pos = sr.n \/ sr.pos = -1))
    /\ [][(sr.pc = "scan" /\ sr'.pc = "loop" /\ sr'.pos = sr.pos - 1 /\ sr'.pos >= 0)
             => (sr'.mi[sr'.pos] > sr'.sel[sr'.pos])]_vars

\* The search came back to a position and returned later.
C9_Witness ==
    /\ SolveDone
    /\ \E k \in 1..(Len(sr.trail) - 1) : sr.trail[k + 1][1] < sr.trail[k][1]

Committed == 0..((IF sr.pos < sr.n THEN sr.pos ELSE sr.n) - 1)

\* The search came back to position p.
CameBack(p) ==
    \E k \in 1..(Len(sr.trail) - 1) : sr.trail[k][1] > p /\ sr.trail[k + 1][1] = p

\* C10: of two committed instances of the same shape type, the later one
\* holds a strictly greater placement index.
C10_IncreasingIndices ==
    (sr.pc \in {"loop", "scan", "done"} /\ sr.n > 0) =>
        \A p, q \in Committed :
            (p < q /\ sr.inst_masks[p] = sr.inst_masks[q]) => sr.sel[p] < sr.sel[q]

\* The search came back to the earlier of two instances of one type, moved
\* it on, and then committed the later one further on still.
C10_Witness ==
    /\ sr.pc = "loop" /\ sr.n > 0
    /\ \E p, q \in Committed :
          /\ p < q /\ sr.inst_masks[p] = sr.inst_masks[q]
          /\ CameBack(p)
          /\ sr.sel[p] > 0
          /\ sr.sel[q] > sr.sel[p] + 1

\* C11: with a catalog of one 1-cell shape required k times, solve_region
\* returns true exactly when k <= w*h; 4 copies fill 2x2, 5 copies on 2x2
\* are turned down by the area check before any placement is generated.
C11_SingleCell ==
    (SolveDone /\ shapes = <<Mono>>) =>
        /\ sr.ret = (counts[1] <= w * h)
        /\ (w = 2 /\ h = 2 /\ counts[1] = 4) => sr.ret
        /\ (w = 2 /\ h = 2 /\ counts[1] = 5) => (~sr.ret /\ sr.type_masks = <<>>)

\* Four 1-cell instances committed on the four cells of 2x2.
C11_Witness ==
    /\ SolveDone /\ shapes = <<Mono>>
    /\ w = 2 /\ h = 2 /\ counts = <<4>>
    /\ sr.ret /\ sr.pos = 4 /\ sr.grid = 15

ByArea == sr.a = 0 /\ Demand > w * h

ByFailFast == sr.a >= 1 /\ sr.mi = <<>> /\ Demand <= w * h /\ Starved

BySearch == sr.mi # <<>> /\ sr.n > 0 /\ sr.pos = -1 /\ Demand <= w * h

\* Every index the code uses is inside its list.
IndicesInRange ==
    /\ sr.pc = "gen" =>
           /\ sr.a \in 1..Len(Active(counts))
           /\ \A j \in DOMAIN all_orientations[Active(counts)[sr.a]] :
                  all_orientations[Active(counts)[sr.a]][j] # <<>>
    /\ sr.pc = "loop" => (sr.pos \in -1..sr.n /\ sr.n > 0)
    /\ sr.pc = "scan" =>
           /\ sr.pos \in DOMAIN sr.grids
           /\ sr.pos \in DOMAIN sr.inst_masks
           /\ sr.pos + 1 \in DOMAIN sr.mi
           /\ sr.i \in 0..Len(SrMasks)

\* C13 as stated: a false result comes from the area check or from a search
\* that ran out with pos below 0, and from nothing else.
C13_TwoFalsePaths ==
    (SolveDone /\ ~sr.ret) => (ByArea \/ BySearch)

\* C13 as amended: a false result comes from exactly one of the area check,
\* the fail-fast test on a shape with fewer placements than copies, and a
\* search that ran out with pos = -1; a true result comes with nothing
\* required or with pos = n; and no index leaves its list.
C13_ThreeFalsePaths ==
    (pc = "solve") =>
        /\ IndicesInRange
        /\ (sr.pc = "done" /\ ~sr.ret) =>
               /\ ByArea \/ ByFailFast \/ BySearch
               /\ ~(ByArea /\ ByFailFast) /\ ~(ByArea /\ BySearch)
               /\ ~(ByFailFast /\ BySearch)
        /\ (sr.pc = "done" /\ sr.ret) =>
               \/ sr.a = 0 /\ \A s \in DOMAIN counts : counts[s] = 0
               \/ sr.mi # <<>> /\ sr.pos = sr.n

\* A required shape has too few placements in a region of 4 cells or more:
\* false from fail-fast, with the area check passed and no search.
C13_Witness ==
    /\ SolveDone /\ ~sr.ret
    /\ ByFailFast /\ ~ByArea /\ ~BySearch
    /\ w * h >= 4 /\ sr.trail = <<>>

\* The cells of the placement committed at position p.
PlacedCells(p) == BitsOf(sr.type_masks[sr.inst_masks[p]].masks[sr.sel[p] + 1], 0)

\* The number of committed placements that cover cell k.
CoverCount(k) == Cardinality({p \in 0..(sr.n - 1) : k \in PlacedCells(p)})

\* C14 as stated: when solve_region returns true, every cell of the region
\* is covered by exactly one committed placement.
C14_ExactTiling ==
    (SolveDone /\ sr.ret) => \A k \in 0..(w * h - 1) : CoverCount(k) = 1

\* C14 as amended: when solve_region returns true, every cell of the region
\* is covered by at most one committed placement, no placement leaves the
\* region, every shape is placed count[s] times, the occupancy is the union
\* of the placements and has as many cells as were demanded; the region is
\* covered entirely exactly when the demanded cells number w*h.
C14_DisjointCover ==
    (SolveDone /\ sr.ret /\ sr.mi # <<>>) =>
        LET covered == UNION {PlacedCells(p) : p \in 0..(sr.n - 1)}
        IN  /\ \A k \in 0..(w * h - 1) : CoverCount(k) <= 1
            /\ covered \subseteq 0..(w * h - 1)
            /\ covered = BitsOf(sr.grid, 0)
            /\ Cardinality(covered) = Demand
            /\ \A s \in DOMAIN counts :
                   Cardinality({p \in 0..(sr.n - 1) :
                                   sr.type_masks[sr.inst_masks[p]].s = s}) = counts[s]
            /\ \A p \in 0..(sr.n - 1) :
                   Cardinality(PlacedCells(p)) =
                       Cardinality(shapes[sr.type_masks[sr.inst_masks[p]].s])
            /\ (covered = 0..(w * h - 1)) <=> (Demand = w * h)

\* A true result, found after backtracking, that leaves cells uncovered.
C14_Witness ==
    /\ SolveDone /\ sr.ret /\ sr.n >= 2
    /\ Len(sr.trail) > sr.n
    /\ Demand < w * h

MovedBits(o, dr, dc) == {(c[1] + dr) * w + (c[2] + dc) : c \in Range(o)}

\* The placements of a type_masks entry that come from orientation j.
FromOrient(e, j) == {k \in 1..Len(e.src) : e.src[k].o = j}

\* Entry e holds, for every orientation of its shape, one placement for each
\* offset with dr in 0..h-max_row-lastR and dc in 0..w-max_col-lastC and no
\* other, orientation after orientation.
HoldsOffsets(e, lastR, lastC) ==
    /\ Len(e.masks) = Len(e.src)
    /\ \A k \in 1..Len(e.src) :
           /\ e.masks[k] = e.src[k].mask
           /\ e.src[k].o \in DOMAIN all_orientations[e.s]
           /\ k > 1 => e.src[k - 1].o <= e.src[k].o
    /\ \A j \in DOMAIN all_orientations[e.s] :
           LET o == all_orientations[e.s][j]
               offs == (0..(h - MaxRow(o) - lastR)) \X (0..(w - MaxCol(o) - lastC))
           IN  /\ {BitsOf(e.masks[k], 0) : k \in FromOrient(e, j)}
                      = {MovedBits(o, d[1], d[2]) : d \in offs}
               /\ Cardinality(FromOrient(e, j)) = Cardinality(offs)

\* C16 as stated: the offsets are the closed ranges [0, h - max_row] and
\* [0, w - max_col].
C16_ClosedRanges ==
    (pc = "solve") =>
        \A g \in 1..Len(sr.type_masks) : HoldsOffsets(sr.type_masks[g], 0, 0)

\* C16 as amended: the placement list of a shape holds, for every one of
\* its orientations, exactly one placement for each offset with dr in
\* 0..h-max_row-1 and dc in 0..w-max_col-1 and no other, and is the
\* concatenation of these per-orientation lists.
C16_HalfOpenRanges ==
    (pc = "solve") =>
        \A g \in 1..Len(sr.type_masks) : HoldsOffsets(sr.type_masks[g], 1, 1)

\* A list made of two orientations with two or more placements each.
C16_Witness ==
    /\ pc = "solve"
    /\ \E g \in 1..Len(sr.type_masks) :
          /\ Cardinality(FromOrient(sr.type_masks[g], 1)) >= 2
          /\ Cardinality(FromOrient(sr.type_masks[g], 2)) >= 2
          /\ \E k \in 1..Len(sr.type_masks[g].src) :
                 sr.type_masks[g].src[k].dr > 0 /\ sr.type_masks[g].src[k].dc > 0

\* Orientation o has a bounding box taller than h or wider than w.
TooBig(o) == MaxRow(o) + 1 > h \/ MaxCol(o) + 1 > w

\* C17: in the placement list of a shape, an orientation whose bounding box
\* is taller than h or wider than w has no placement, and every other
\* orientation of the shape has its (h - max_row) * (w - max_col) placements,
\* whatever the orientations before it.
C17_TooBigSkipped ==
    (pc = "solve") =>
        \A g \in 1..Len(sr.type_masks) :
            LET e == sr.type_masks[g]
            IN  \A j \in DOMAIN all_orientations[e.s] :
                    LET o == all_orientations[e.s][j]
                    IN  IF TooBig(o)
                        THEN FromOrient(e, j) = {}
                        ELSE /\ FromOrient(e, j) # {}
                             /\ Cardinality(FromOrient(e, j))
                                    = (h - MaxRow(o)) * (w - MaxCol(o))

\* A shape whose list has placements of an orientation that comes after
\* one too big for the region, and of one that comes before it.
C17_Witness ==
    /\ pc = "solve"
    /\ \E g \in 1..Len(sr.type_masks) :
          LET e == sr.type_masks[g]
              os == all_orientations[e.s]
          IN  \E j0, j1, j2 \in DOMAIN os :
                 /\ j0 < j1 /\ j1 < j2
                 /\ TooBig(os[j1])
                 /\ FromOrient(e, j0) # {}
                 /\ FromOrient(e, j2) # {}

\* The search of solve_region has been set up.
SrSetUp == pc = "solve" /\ sr.mi # <<>>

HasCandidate == pc = "solve" /\ sr.pc = "scan" /\ sr.i < Len(SrMasks)

CandidateCells == BitsOf(SrMasks[sr.i + 1], 0)

\* The placements of group g that are disjoint from the cells in occ.
FreeOf(g, occ) ==
    {k \in 1..Len(sr.type_masks[g].masks) :
        BitsOf(sr.type_masks[g].masks[k], 0) \cap occ = {}}

\* Some group with instances at positions >= p + 1 has fewer placements
\* disjoint from occ than instances still to be placed.
Starving(p, occ) ==
    \E g \in 1..Len(sr.group_boundaries) :
        LET gs == sr.group_boundaries[g][1]
            ge == sr.group_boundaries[g][2]
            start == IF p + 1 > gs THEN p + 1 ELSE gs
        IN  /\ ge > p + 1
            /\ Cardinality(FreeOf(g, occ)) < ge - start

\* C19: a candidate disjoint from the occupancy is discarded (the scan moves
\* to the next index, nothing else changes) when some group that still has
\* instances at positions >= p+1 has fewer placements disjoint from
\* occupancy | mask than instances still to be placed, and is committed
\* (position p+1, occupancy | mask) otherwise.
C19_DiscardedIffStarving ==
    [][(HasCandidate /\ CandidateCells \cap BitsOf(sr.grid, 0) = {}) =>
          IF Starving(sr.pos, BitsOf(sr.grid, 0) \cup CandidateCells)
          THEN sr' = [sr EXCEPT !.i = sr.i + 1]
          ELSE /\ sr'.pos = sr.pos + 1
               /\ sr'.sel[sr.pos] = sr.i
               /\ BitsOf(sr'.grid, 0) = BitsOf(sr.grid, 0) \cup CandidateCells]_vars

\* The scan has gone past a candidate that was disjoint from the occupancy:
\* the forward check discarded it, for the sake of a later group.
C19_Witness ==
    /\ pc = "solve" /\ sr.pc = "scan"
    /\ sr.i > sr.mi[sr.pos]
    /\ sr.pos > 0
    /\ BitsOf(SrMasks[sr.i], 0) \cap BitsOf(sr.grid, 0) = {}
    /\ \E g \in 1..Len(sr.group_boundaries) :
          /\ sr.group_boundaries[g][1] > sr.pos
          /\ Cardinality(FreeOf(g, BitsOf(sr.grid, 0) \cup BitsOf(SrMasks[sr.i], 0)))
                 < sr.group_boundaries[g][2] - sr.group_boundaries[g][1]

\* The shape of the instance at position q.
ShapeAt(q) == sr.type_masks[sr.inst_masks[q]].s

\* The instances at positions q..n-1 can be placed, each on an in-bounds
\* translate of an orientation of its shape, pairwise disjoint and disjoint
\* from the cells in taken.
RECURSIVE CanComplete(_, _)
CanComplete(q, taken) ==
    IF q >= sr.n THEN TRUE
    ELSE \E P \in Translates(ShapeAt(q)) :
            /\ P \cap taken = {}
            /\ CanComplete(q + 1, taken \cup P)

\* The cells of region cell numbers K.
CellsOf(K) == {<<k \div w, k % w>> : k \in K}

\* C20: when the forward check discards a candidate, the instances after
\* the current position cannot all be placed without overlap beside the
\* placements committed so far and that candidate.
C20_ForwardCheckSound ==
    [][(HasCandidate
        /\ CandidateCells \cap BitsOf(sr.grid, 0) = {}
        /\ sr' = [sr EXCEPT !.i = sr.i + 1])
          => ~CanComplete(sr.pos + 1, CellsOf(BitsOf(sr.grid, 0) \cup CandidateCells))]_vars

\* A candidate was discarded for the sake of the group it belongs to, with
\* enough cells left free for all the instances still to be placed.
C20_Witness ==
    /\ pc = "solve" /\ sr.pc = "scan"
    /\ sr.i > sr.mi[sr.pos]
    /\ BitsOf(SrMasks[sr.i], 0) \cap BitsOf(sr.grid, 0) = {}
    /\ sr.pos + 1 < sr.n
    /\ sr.inst_masks[sr.pos + 1] = sr.inst_masks[sr.pos]
    /\ Cardinality(FreeOf(sr.inst_masks[sr.pos],
                          BitsOf(sr.grid, 0) \cup BitsOf(SrMasks[sr.i], 0)))
           < sr.group_boundaries[sr.inst_masks[sr.pos]][2] - (sr.pos + 1)
    /\ Demand <= w * h

\* Index k (from 0) of the list at the current position is disjoint from the
\* occupancy and leaves every group enough placements.
Acceptable(k) ==
    LET cells == BitsOf(SrMasks[k + 1], 0)
    IN  /\ cells \cap BitsOf(sr.grid, 0) = {}
        /\ ~Starving(sr.pos, BitsOf(sr.grid, 0) \cup cells)

\* The step commits a placement at the current position.
CommitStep == pc = "solve" /\ sr.pc = "scan" /\ sr'.pos = sr.pos + 1

\* C21: a commit at position p takes the lowest index i >= resume_index[p]
\* that is disjoint from the occupancy and passes the forward check; it
\* saves the old occupancy at p, sets resume_index[p] = i+1, the occupancy
\* to old | mask, the position to p+1, and resume_index[p+1] to i+1 when
\* instance p+1 has the shape of instance p and to 0 otherwise; no other
\* saved occupancy or resume index changes.
C21_CommitStep ==
    [][CommitStep =>
          LET p == sr.pos
              i == sr.i
          IN  /\ sr.mi[p] <= i /\ i < Len(SrMasks)
              /\ Acceptable(i)
              /\ \A k \in sr.mi[p]..(i - 1) : ~Acceptable(k)
              /\ sr'.grids[p] = sr.grid
              /\ sr'.mi[p] = i + 1
              /\ BitsOf(sr'.grid, 0) = BitsOf(sr.grid, 0) \cup BitsOf(SrMasks[i + 1], 0)
              /\ sr'.mi[p + 1] =
                     IF p + 1 < sr.n /\ ShapeAt(p + 1) = ShapeAt(p) THEN i + 1 ELSE 0
              /\ \A q \in DOMAIN sr.mi : q \notin {p, p + 1} => sr'.mi[q] = sr.mi[q]
              /\ \A q \in DOMAIN sr.grids : q # p => sr'.grids[q] = sr.grids[q]]_vars

\* A commit has just set to 0 the resume index of a position of another
\* shape that an earlier visit had left at 2 or more.
C21_Witness ==
    /\ pc = "solve" /\ sr.pc = "loop"
    /\ 0 < sr.pos /\ sr.pos < sr.n
    /\ sr.mi[sr.pos] = 0
    /\ sr.sel[sr.pos] >= 0
    /\ sr.inst_masks[sr.pos] # sr.inst_masks[sr.pos - 1]

\* The step gives up the current position.
BacktrackStep == pc = "solve" /\ sr.pc = "scan" /\ sr'.pos = sr.pos - 1

\* C22 as stated: a backtrack from position p > 0 sets the occupancy to the
\* value saved at p, the position given up.
C22_RestoresOwnFrame ==
    [][(BacktrackStep /\ sr.pos > 0) => sr'.grid = sr.grids[sr.pos]]_vars

\* C22 as amended: a position p is given up exactly when no index from
\* resume_index[p] on is disjoint from the occupancy and passes the forward
\* check; from p = 0 the position becomes -1 and the search returns false;
\* from p > 0 the occupancy becomes the value saved at p-1 (the occupancy
\* before the commit at p-1), the position p-1, and the next scan starts at
\* resume_index[p-1], one past the index committed there; no resume index
\* or saved occupancy changes.
C22_BacktrackStep ==
    /\ [][BacktrackStep =>
             LET p == sr.pos
             IN  /\ sr.i = Len(SrMasks)
                 /\ \A k \in sr.mi[p]..(Len(SrMasks) - 1) : ~Acceptable(k)
                 /\ sr'.mi = sr.mi /\ sr'.grids = sr.grids
                 /\ IF p = 0
                    THEN sr'.pos = -1 /\ sr'.grid = sr.grid
                    ELSE /\ sr'.grid = sr.grids[p - 1]
                         /\ sr'.mi[p - 1] = sr.sel[p - 1] + 1
                         /\ sr.sel[p - 1] >= 0]_vars
    /\ [][(pc = "solve" /\ sr.pc = "scan" /\ sr.i = Len(SrMasks)) => BacktrackStep]_vars
    /\ [][(pc = "solve" /\ sr.pc = "loop") =>
             IF sr.pos = -1 THEN sr'.pc = "done" /\ ~sr'.ret
             ELSE IF sr.pos = sr.n THEN sr'.pc = "done" /\ sr'.ret
             ELSE sr'.pc = "scan" /\ sr'.i = sr.mi[sr.pos] /\ sr'.grid = sr.grid]_vars

\* The search has come back from position p+1 to p, which holds the
\* occupancy saved at p, other than the one saved at p+1, and a resume index
\* past the index committed there.
C22_Witness ==
    /\ pc = "solve" /\ sr.pc = "loop"
    /\ 0 <= sr.pos /\ sr.pos + 1 < sr.n
    /\ sr.trail # <<>>
    /\ sr.trail[Len(sr.trail)][1] = sr.pos + 1
    /\ sr.grid = sr.grids[sr.pos]
    /\ sr.grids[sr.pos + 1] # sr.grids[sr.pos]
    /\ sr.mi[sr.pos] = sr.sel[sr.pos] + 1
    /\ sr.mi[sr.pos] >= 2

\* The mask committed at position p.
PlacedMask(p) == sr.type_masks[sr.inst_masks[p]].masks[sr.sel[p] + 1]

RECURSIVE OrUpTo(_)
\* The bitwise OR of the masks committed at positions 0..p-1.
OrUpTo(p) == IF p <= 0 THEN 0 ELSE BitOr(OrUpTo(p - 1), PlacedMask(p - 1))

\* The search loop of solve_region is running.
InSearch == pc = "solve" /\ sr.pc \in {"loop", "scan"}

\* C23: at every loop head the occupancy is the bitwise OR of the masks
\* committed at positions 0..position-1, which are pairwise disjoint; a
\* commit ORs one mask disjoint from the occupancy into it and so strictly
\* grows it; a backtrack from p > 0 restores the occupancy that held before
\* the commit at p-1; no other step of the search changes it.
C23_OccupancyIsCommitted ==
    /\ [](InSearch =>
            /\ sr.grid = OrUpTo(IF sr.pos < sr.n THEN sr.pos ELSE sr.n)
            /\ \A p, q \in Committed : p # q => BitAnd(PlacedMask(p), PlacedMask(q)) = 0
            /\ \A p \in Committed : sr.sel[p] >= 0 /\ sr.grids[p] = OrUpTo(p))
    /\ [][(InSearch /\ sr'.pc \in {"loop", "scan"}) =>
             IF CommitStep
             THEN /\ BitAnd(sr.grid, SrMasks[sr.i + 1]) = 0
                  /\ SrMasks[sr.i + 1] > 0
                  /\ sr'.grid = BitOr(sr.grid, SrMasks[sr.i + 1])
                  /\ sr'.grid = sr.grid + SrMasks[sr.i + 1]
             ELSE IF BacktrackStep /\ sr.pos > 0
             THEN /\ sr'.grid = OrUpTo(sr.pos - 1)
                  /\ sr.grid = BitOr(sr'.grid, PlacedMask(sr.pos - 1))
                  /\ sr'.grid < sr.grid
             ELSE sr'.grid = sr.grid]_vars

\* A loop head reached by a backtrack, with a placement still committed.
C23_Witness ==
    /\ pc = "solve" /\ sr.pc = "loop"
    /\ 1 <= sr.pos /\ sr.pos + 1 < sr.n
    /\ sr.trail # <<>>
    /\ sr.trail[Len(sr.trail)][1] = sr.pos + 1
    /\ sr.grid = OrUpTo(sr.pos) /\ sr.grid > 0
    /\ sr.grid # sr.trail[Len(sr.trail)][2]

\* The positions below the current one that hold an instance of the shape
\* type of the current one.
EarlierSameType == {p \in 0..(sr.pos - 1) : sr.inst_masks[p] = sr.inst_masks[sr.pos]}

\* C24 as stated: no commit gives index i to an instance placed after an
\* instance of the same shape type that used an index <= i.
C24_NeverAboveEarlier ==
    [][CommitStep => \A p \in EarlierSameType : ~(sr.sel[p] <= sr.i)]_vars

\* C24 as amended: every index tried, and so every index committed, at a
\* position is strictly greater than the index used by each earlier
\* committed instance of the same shape type; index i is never given to an
\* instance placed after a same-type instance that used an index >= i.
C24_AlwaysAboveEarlier ==
    (pc = "solve" /\ sr.pc = "scan") =>
        /\ sr.mi[sr.pos] <= sr.i
        /\ \A p \in EarlierSameType : sr.sel[p] < sr.mi[sr.pos] /\ sr.sel[p] < sr.i

\* A scan at the third instance of a type, the two before it committed at
\* indices that are not adjacent.
C24_Witness ==
    /\ pc = "solve" /\ sr.pc = "scan"
    /\ sr.i < Len(SrMasks)
    /\ Cardinality(EarlierSameType) >= 2
    /\ \E p \in EarlierSameType : sr.sel[p] > 0 /\ sr.sel[p] + 1 < sr.i

\* The steps of solve_region_traced that commit and that give up a position.
TrCommitStep == pc = "traced" /\ tr.pc = "scan" /\ tr'.pos = tr.pos + 1

TrBacktrackStep == pc = "traced" /\ tr.pc = "scan" /\ tr'.pos = tr.pos - 1

\* The bits r*w+c of a cell list.
CellBits(cells) == {cells[q][1] * w + cells[q][2] : q \in DOMAIN cells}

\* The cells are a translate of a rotation or reflection of catalog shape s.
IsPlacementOf(cells, s) ==
    /\ s \in DOMAIN shapes
    /\ Len(cells) = Cardinality(shapes[s])
    /\ \E f \in BOOLEAN, r \in 0..3 :
          Normalize(Range(cells)) = Normalize(TransformCells(shapes[s], f, r))

\* C25: while the cap has not been reached, a commit appends one event
\* holding the position committed, the catalog index of that instance's
\* shape and the cells of the placement, all inside the region, whose bits
\* r*w+c are exactly the bits the commit adds to the occupancy; giving up a
\* position appends one event holding that position; no other step of the
\* search, and no step once the cap is reached, changes the event list.
C25_EventContents ==
    [][(pc = "traced" /\ tr.pc \in {"loop", "scan"}) =>
         IF tr.capped \/ ~(TrCommitStep \/ TrBacktrackStep)
         THEN tr'.events = tr.events
         ELSE /\ Len(tr'.events) = Len(tr.events) + 1
              /\ \A k \in 1..Len(tr.events) : tr'.events[k] = tr.events[k]
              /\ LET e == tr'.events[Len(tr'.events)]
                 IN  IF TrCommitStep
                     THEN /\ e.t = "c" /\ e.p = tr.pos
                          /\ IsPlacementOf(e.cells, e.s)
                          /\ counts[e.s] > 0
                          /\ e.p \in CountBefore(tr.type_masks, tr.inst_masks[e.p] - 1)..
                                     (CountBefore(tr.type_masks, tr.inst_masks[e.p]) - 1)
                          /\ tr.type_masks[tr.inst_masks[e.p]].s = e.s
                          /\ \A q \in DOMAIN e.cells :
                                 /\ 0 <= e.cells[q][1] /\ e.cells[q][1] < h
                                 /\ 0 <= e.cells[q][2] /\ e.cells[q][2] < w
                          /\ CellBits(e.cells) = BitsOf(TrMasks[tr.i + 1], 0)
                          /\ CellBits(e.cells) \cap BitsOf(tr.grid, 0) = {}
                          /\ BitsOf(tr'.grid, 0) = BitsOf(tr.grid, 0) \cup CellBits(e.cells)
                     ELSE /\ e = [t |-> "b", p |-> tr.pos]
                          /\ tr.i = Len(TrMasks)]_vars

\* A trace with a backtrack and then a commit of an instance whose group
\* comes first in the search but whose shape comes second in the catalog.
C25_Witness ==
    /\ pc = "traced" /\ tr.pc = "loop" /\ ~tr.capped
    /\ Len(tr.events) >= 3
    /\ LET e == tr.events[Len(tr.events)]
       IN  /\ e.t = "c"
           /\ e.s # tr.inst_masks[e.p]
           /\ e.s = 2 /\ tr.inst_masks[e.p] = 1
    /\ \E k \in 1..Len(tr.events) : tr.events[k].t = "b"

\* The instances of group g at the current position or after it.
Unplaced(g) ==
    LET gs == sr.group_boundaries[g][1]
        ge == sr.group_boundaries[g][2]
        from == IF sr.pos > gs THEN sr.pos ELSE gs
    IN  IF ge > from THEN ge - from ELSE 0

\* C26: at every loop head each group with unplaced instances has at least
\* as many placements disjoint from the occupancy as unplaced instances.
C26_GroupsSupplied ==
    (pc = "solve" /\ sr.pc = "loop") =>
        \A g \in 1..Len(sr.group_boundaries) :
            Unplaced(g) > 0 =>
                Cardinality(FreeOf(g, BitsOf(sr.grid, 0))) >= Unplaced(g)

\* A loop head reached by a backtrack, with a placement committed, at which
\* some group has exactly as many free placements as unplaced instances.
C26_Witness ==
    /\ pc = "solve" /\ sr.pc = "loop"
    /\ 1 <= sr.pos /\ sr.pos < sr.n
    /\ sr.trail # <<>>
    /\ sr.trail[Len(sr.trail)][1] = sr.pos + 1
    /\ \E g \in 1..Len(sr.group_boundaries) :
          /\ Unplaced(g) > 0
          /\ Cardinality(FreeOf(g, BitsOf(sr.grid, 0))) = Unplaced(g)

\* The number of events of kind t among the first k.
RECURSIVE CountKind(_, _, _)
CountKind(ev, t, k) ==
    IF k = 0 THEN 0
    ELSE CountKind(ev, t, k - 1) + (IF ev[k].t = t THEN 1 ELSE 0)

\* The first k events replayed on a stack: a commit is pushed, a backtrack
\* pops the top if there is one.
RECURSIVE Replay(_, _)
Replay(ev, k) ==
    IF k = 0 THEN <<>>
    ELSE LET st == Replay(ev, k - 1)
         IN  IF ev[k].t = "c" THEN Append(st, ev[k])
             ELSE IF st = <<>> THEN st ELSE SubSeq(st, 1, Len(st) - 1)

\* solve_region_traced has entered its search loop.
TracedSearch == pc = "traced" /\ tr.pc \in {"loop", "scan", "done"} /\ tr.mi # <<>>

\* C27: while the cap has not been reached, the commit events minus the
\* backtrack events number the current position; the events replayed as
\* push and pop leave the commits of positions 0..position-1 with the cells
\* of the placements committed there; a search that returns true ends
\* with a commit at n-1 and one that returns false with a backtrack at 0.
C27_EventsTrackPosition ==
    (TracedSearch /\ ~tr.capped) =>
        LET ev == tr.events
            st == Replay(ev, Len(ev))
        IN  /\ CountKind(ev, "c", Len(ev)) - CountKind(ev, "b", Len(ev)) = tr.pos
            /\ Len(st) = (IF tr.pos < 0 THEN 0 ELSE tr.pos)
            /\ \A q \in 0..(tr.pos - 1) :
                   LET g == tr.type_masks[tr.inst_masks[q]]
                   IN  st[q + 1] = [t |-> "c", p |-> q, s |-> g.s,
                                    cells |-> g.cells_list[tr.sel[q] + 1]]
            /\ tr.pc = "done" =>
                   /\ ev # <<>>
                   /\ IF tr.ret
                      THEN ev[Len(ev)].t = "c" /\ ev[Len(ev)].p = tr.n - 1
                      ELSE ev[Len(ev)] = [t |-> "b", p |-> 0]

\* A search that failed below the cap after committing and backtracking.
C27_Witness ==
    /\ TracedSearch /\ ~tr.capped
    /\ tr.pc = "done" /\ ~tr.ret
    /\ Len(tr.events) >= 3
    /\ tr.events[1].t = "c"

\* The call in hand is on the region of the first call, with the same
\* orientations of every shape.
SameUpToOrder ==
    /\ memo.done
    /\ <<w, h, counts>> = <<memo.w, memo.h, memo.counts>>
    /\ shapes = memo.shapes
    /\ Len(all_orientations) = Len(memo.all_orientations)
    /\ \A s \in 1..Len(all_orientations) :
          /\ Len(all_orientations[s]) = Len(memo.all_orientations[s])
          /\ Range(all_orientations[s]) = Range(memo.all_orientations[s])

\* C28: solve_region called on the same region with the orientations of
\* each shape listed in another order returns the same boolean.
C28_OrderIndependent ==
    (SolveDone /\ SameUpToOrder) => sr.ret = memo.ret

\* Two searches that both backtracked, went different ways because the
\* orientations were listed differently, and returned the same result.
C28_Witness ==
    /\ SolveDone /\ SameUpToOrder
    /\ all_orientations # memo.all_orientations
    /\ sr.trail # memo.trail
    /\ Len(sr.trail) > sr.n /\ Len(memo.trail) > sr.n
    /\ sr.n >= 2
    /\ sr.ret = memo.ret

\* A region has been read whose counts are all 0.
NothingRequired == counts # <<>> /\ \A s \in DOMAIN counts : counts[s] = 0

\* The frame has generated no placement and has not entered the loop.
Untouched(f) ==
    /\ f.pc \in {"precheck", "done"}
    /\ f.type_masks = <<>> /\ f.inst_masks = <<>> /\ f.mi = <<>>
    /\ f.trail = <<>> /\ f.grid = 0
    /\ f.pc = "done" => f.ret

\* C29: when every count is 0, solve_region returns true for every region
\* size, w*h = 0 included, without generating a placement or entering the
\* search loop, and solve_region_traced returns true with no event.
C29_NothingRequired ==
    NothingRequired =>
        /\ pc = "solve" => Untouched(sr)
        /\ pc = "traced" => /\ Untouched(sr) /\ sr.pc = "done"
                            /\ Untouched(tr) /\ tr.events = <<>> /\ ~tr.capped
                            /\ first.done => first.ret /\ first.events = <<>>

\* Both solvers have returned true for a region of no cells and no shapes.
C29_Witness ==
    /\ NothingRequired
    /\ pc = "traced" /\ tr.pc = "done" /\ tr.ret /\ sr.ret
    /\ w = 0 /\ h > 0
    /\ tr.events = <<>>
====
